---- MODULE Spec2Model ----
(***************************************************************************)
(* Verification model of scripts/validate_bitcoin_protocol.py: the BIP     *)
(* pattern registry, validate_protocol and the command-line wrapper main.  *)
(*                                                                         *)
(* Texts are sequences of one-character strings, so that regular           *)
(* expression search, substring tests and lower-casing are computed        *)
(* character by character, as Python computes them. A character outside    *)
(* ASCII is written by its code point, "U+017F" for the long s.            *)
(***************************************************************************)
EXTENDS Integers, Sequences, FiniteSets, TLC

VARIABLES
    BIP_STANDARDS,  \* the module-level registry dict, as its item sequence
    pc,             \* position of the running validate_protocol call
    input_text,     \* argument of the running / last validate_protocol call
    idx,            \* position of the for loop in BIP_STANDARDS.items()
    results,        \* reference to the results dict of the running / last call
    heap,           \* dict objects by reference
    kept,           \* a report a caller retained: [ref, input]
    main_pc,        \* position of main()
    argv,           \* command line of main(): [has_input, input]
    stdout,         \* what main() printed
    exit_code,      \* exit status of the wrapper process, -1 while running
    threads,        \* the calls of concurrent callers: [pc, input_text, idx, results]
    harness,        \* test_bitcoin_protocol_validator: [pc, i, output, out]
    web5,           \* the Web5 DWN test client: [pc, args, server_url, did,
                    \* message_id, requests, exit_code]
    fs,             \* the file system of the repositories: [files, dirs, history]
    now,            \* the clock, in seconds
    sync_call,      \* the last direct call of sync_file or save_history: its
                    \* arguments, the file system it found and what it returned
    sync            \* main of sync_labelling: its arguments, its locals, the
                    \* subprocesses it ran, its summary and exit status

vars == <<BIP_STANDARDS, pc, input_text, idx, results, heap, kept,
          main_pc, argv, stdout, exit_code, threads, harness, web5,
          fs, now, sync_call, sync>>

validatorVars == <<BIP_STANDARDS, pc, input_text, idx, results, heap>>
mainVars == <<main_pc, argv, stdout, exit_code>>
\* the state of the other programs and callers, which a step of this one leaves alone
syncVars == <<fs, now, sync_call, sync>>
extVars == <<threads, harness, web5, syncVars>>

-----------------------------------------------------------------------------
(* Bounds *)

\* number of fragments concatenated into an input of validate_protocol
MaxFrags == 2
\* number of fragments concatenated into an input when reports are retained
MaxKeptFrags == 1

-----------------------------------------------------------------------------
(* Characters and strings *)

UpperLetters ==
    <<"A", "B", "C", "D", "E", "F", "G", "H", "I", "J", "K", "L", "M",
      "N", "O", "P", "Q", "R", "S", "T", "U", "V", "W", "X", "Y", "Z">>
LowerLetters ==
    <<"a", "b", "c", "d", "e", "f", "g", "h", "i", "j", "k", "l", "m",
      "n", "o", "p", "q", "r", "s", "t", "u", "v", "w", "x", "y", "z">>
Digits == {"0", "1", "2", "3", "4", "5", "6", "7", "8", "9"}

Range(s) == {s[i] : i \in 1..Len(s)}

\* the case mappings of the ASCII letters
LowerOf == [c \in Range(UpperLetters) |->
              LowerLetters[CHOOSE i \in 1..26 : UpperLetters[i] = c]]
UpperOf == [c \in Range(LowerLetters) |->
              UpperLetters[CHOOSE i \in 1..26 : LowerLetters[i] = c]]

\* The characters outside ASCII that a case mapping of Python relates to an
\* ASCII letter: U+0130 (capital I with dot above), U+0131 (dotless i),
\* U+017F (long s) and U+212A (Kelvin sign). U+0307 is the combining dot
\* above, which str.lower() puts after the i it gives for U+0130.

\* the lower-case mapping of one character to one character, which the re
\* module applies to a str pattern and to its text under re.IGNORECASE
LowerChar(c) ==
    IF c \in DOMAIN LowerOf THEN LowerOf[c]
    ELSE IF c = "U+0130" THEN "i"
    ELSE IF c = "U+212A" THEN "k"
    ELSE c
\* the upper-case mapping of one character to one character
UpperChar(c) ==
    IF c \in DOMAIN UpperOf THEN UpperOf[c]
    ELSE IF c = "U+0131" THEN "I"
    ELSE IF c = "U+017F" THEN "S"
    ELSE c

\* the lower-case characters that re.IGNORECASE takes for the same letter as
\* a lower-case character although the lower-case mapping keeps them apart
CaseFixes(c) ==
    CASE c = "i" -> {"U+0131"}
      [] c = "U+0131" -> {"i"}
      [] c = "s" -> {"U+017F"}
      [] c = "U+017F" -> {"s"}
      [] OTHER -> {}

\* str.lower() on one character: one character, or two for U+0130
LowerStr(c) == IF c = "U+0130" THEN <<"i", "U+0307">> ELSE <<LowerChar(c)>>

\* the lower-cased characters of s from position i on
RECURSIVE LowerFrom(_, _)
LowerFrom(s, i) ==
    IF i > Len(s) THEN <<>> ELSE LowerStr(s[i]) \o LowerFrom(s, i + 1)

\* str.lower()
lower(s) == LowerFrom(s, 1)

\* the Python test  sub in s  on strings
Contains(sub, s) ==
    \E text \in {s} :
        \E i \in 0..(Len(text) - Len(sub)) : SubSeq(text, i + 1, i + Len(sub)) = sub

-----------------------------------------------------------------------------
(* Regular expressions: a pattern is a set of alternatives, an alternative  *)
(* a sequence of atoms, an atom a character class, possibly negated,        *)
(* possibly repeated one or more times. An atom carries its class as        *)
(* written, chars, and as compiled for re.IGNORECASE, folded.               *)

\* the class that re compiles from the members S under re.IGNORECASE: the
\* lower-cased members and their case fixes
IgnoreCaseClass(S) == UNION {{LowerChar(m)} \cup CaseFixes(LowerChar(m)) : m \in S}

Atom(S, neg, plus) ==
    [chars |-> S, folded |-> IgnoreCaseClass(S), neg |-> neg, plus |-> plus]
Lit(c) == Atom({c}, FALSE, FALSE)
Plus(S) == Atom(S, FALSE, TRUE)
PlusNot(S) == Atom(S, TRUE, TRUE)
Literal(s) == [i \in 1..Len(s) |-> Lit(s[i])]

\* variant: the flag is disregarded
AtomMatchesNoCase(a, c, ignorecase) ==
    (c \in a.chars) # a.neg

\* one character against one atom; ignorecase is the re.IGNORECASE flag, under
\* which the lower-cased character is looked up in the class compiled from
\* the lower-cased members and their case fixes
AtomMatches(a, c, ignorecase) ==
    LET in_class == IF ignorecase
                    THEN LowerChar(c) \in a.folded
                    ELSE c \in a.chars
    IN in_class # a.neg

\* the end of the longest run of characters matching a that starts at s[i]
RECURSIVE RunEnd(_, _, _, _)
RunEnd(a, s, i, ignorecase) ==
    IF i <= Len(s) /\ AtomMatches(a, s[i], ignorecase)
    THEN RunEnd(a, s, i + 1, ignorecase)
    ELSE i

\* the positions at which a match of atoms[k..] that starts at s[i] can end
RECURSIVE MatchEnds(_, _, _, _, _)
MatchEnds(atoms, k, s, i, ignorecase) ==
    IF k > Len(atoms) THEN {i}
    ELSE LET a == atoms[k] IN
         IF ~a.plus
         THEN IF i <= Len(s) /\ AtomMatches(a, s[i], ignorecase)
              THEN MatchEnds(atoms, k + 1, s, i + 1, ignorecase)
              ELSE {}
         ELSE UNION {MatchEnds(atoms, k + 1, s, j, ignorecase) :
                        j \in (i + 1)..RunEnd(a, s, i, ignorecase)}

\* re.search(pattern, string, flags) is not None
re_search(pattern, s, ignorecase) ==
    \E alt \in pattern : \E i \in 1..(Len(s) + 1) :
        MatchEnds(alt, 1, s, i, ignorecase) # {}

-----------------------------------------------------------------------------
(* The registry *)

AlnumClass == Range(UpperLetters) \cup Range(LowerLetters) \cup Digits
HexClass == Digits \cup {"a", "b", "c", "d", "e", "f"}

\* tr\([A-Za-z0-9]+,\{[^}]+\}\)
TaprootRegex ==
    { <<Lit("t"), Lit("r"), Lit("("), Plus(AlnumClass), Lit(","), Lit("{"),
        PlusNot({"}"}), Lit("}"), Lit(")")>> }

\* OP_CHECKSIG|OP_CHECKSIGVERIFY
TapscriptRegex ==
    { Literal(<<"O", "P", "_", "C", "H", "E", "C", "K", "S", "I", "G">>),
      Literal(<<"O", "P", "_", "C", "H", "E", "C", "K", "S", "I", "G",
                "V", "E", "R", "I", "F", "Y">>) }

\* psbt:[0-9a-f]+
PsbtRegex ==
    { Literal(<<"p", "s", "b", "t", ":">>) \o <<Plus(HexClass)>> }

\* psbt:v2:[0-9a-f]+
PsbtV2Regex ==
    { Literal(<<"p", "s", "b", "t", ":", "v", "2", ":">>) \o <<Plus(HexClass)>> }

\* BIP_STANDARDS as declared; a dict iterates in declaration order
RegistryDecl ==
    << [id |-> "BIP-341", name |-> "Taproot",
        validation_regex |-> TaprootRegex,
        description |-> "Taproot output spending conditions"],
       [id |-> "BIP-342", name |-> "Tapscript",
        validation_regex |-> TapscriptRegex,
        description |-> "Tapscript validation rules"],
       [id |-> "BIP-174", name |-> "PSBT",
        validation_regex |-> PsbtRegex,
        description |-> "Partially Signed Bitcoin Transaction"],
       [id |-> "BIP-370", name |-> "PSBT Version 2",
        validation_regex |-> PsbtV2Regex,
        description |-> "PSBT Version 2 format"] >>

SILENT_LEAF == <<"S", "I", "L", "E", "N", "T", "_", "L", "E", "A", "F">>
unsigned_tx == <<"u", "n", "s", "i", "g", "n", "e", "d", "_", "t", "x">>

SilentLeafWarning ==
    "Missing recommended SILENT_LEAF pattern for privacy-preserving Taproot scripts"
UnsignedTxWarning == "PSBT should include unsigned_tx field"
NoStandardError == "No recognized Bitcoin protocol standards found in input"
PassedWithWarnings == "Protocol validation passed with warnings"
Timestamp == "2025-03-10T08:45:00Z"


-----------------------------------------------------------------------------
(* validate_protocol *)

\* the literal results dict a call starts from
NewResults ==
    [validation_performed |-> TRUE, timestamp |-> Timestamp,
     standards_checked |-> <<>>, compliant |-> TRUE, details |-> <<>>]

\* variant: the SILENT_LEAF marker is looked up ignoring case
BipWarningsAnyCaseLeaf(bip_id, text) ==
    (IF bip_id = "BIP-341" /\ ~Contains(lower(SILENT_LEAF), lower(text))
     THEN <<SilentLeafWarning>> ELSE <<>>)
    \o
    (IF bip_id = "BIP-174" /\ ~Contains(unsigned_tx, lower(text))
     THEN <<UnsignedTxWarning>> ELSE <<>>)

\* variant: the unsigned_tx marker is looked up in the text as given
BipWarningsExactTx(bip_id, text) ==
    (IF bip_id = "BIP-341" /\ ~Contains(SILENT_LEAF, text)
     THEN <<SilentLeafWarning>> ELSE <<>>)
    \o
    (IF bip_id = "BIP-174" /\ ~Contains(unsigned_tx, text)
     THEN <<UnsignedTxWarning>> ELSE <<>>)

\* variant: the unsigned_tx check applies to every PSBT standard
BipWarningsPsbtFamily(bip_id, text) ==
    (IF bip_id = "BIP-341" /\ ~Contains(SILENT_LEAF, text)
     THEN <<SilentLeafWarning>> ELSE <<>>)
    \o
    (IF bip_id \in {"BIP-174", "BIP-370"} /\ ~Contains(unsigned_tx, lower(text))
     THEN <<UnsignedTxWarning>> ELSE <<>>)

\* the two standard-specific checks of one loop iteration, in source order
BipWarnings(bip_id, text) ==
    (IF bip_id = "BIP-341" /\ ~Contains(SILENT_LEAF, text)
     THEN <<SilentLeafWarning>> ELSE <<>>)
    \o
    (IF bip_id = "BIP-174" /\ ~Contains(unsigned_tx, lower(text))
     THEN <<UnsignedTxWarning>> ELSE <<>>)

\* is_applicable of one loop iteration
IsApplicable(bip_info, text) == re_search(bip_info.validation_regex, text, TRUE)

\* variant: a matched standard is put in front of standards_checked
LoopBodyPrepend(res, bip_info, text) ==
    IF IsApplicable(bip_info, text)
    THEN [res EXCEPT
            !.standards_checked = <<bip_info.id>> \o @,
            !.details = Append(@, [standard |-> bip_info.id,
                                   name |-> bip_info.name,
                                   compliant |-> TRUE,
                                   description |-> bip_info.description,
                                   warnings |-> BipWarnings(bip_info.id, text)])]
    ELSE res

\* variant: a detail without warnings carries no warnings key
LoopBodySparse(res, bip_info, text) ==
    IF IsApplicable(bip_info, text)
    THEN [res EXCEPT
            !.standards_checked = Append(@, bip_info.id),
            !.details = Append(@,
                IF BipWarnings(bip_info.id, text) = <<>>
                THEN [standard |-> bip_info.id,
                      name |-> bip_info.name,
                      compliant |-> TRUE,
                      description |-> bip_info.description]
                ELSE [standard |-> bip_info.id,
                      name |-> bip_info.name,
                      compliant |-> TRUE,
                      description |-> bip_info.description,
                      warnings |-> BipWarnings(bip_info.id, text)])]
    ELSE res

\* one iteration of the for loop over BIP_STANDARDS.items()
LoopBody(res, bip_info, text) ==
    IF IsApplicable(bip_info, text)
    THEN [res EXCEPT
            !.standards_checked = Append(@, bip_info.id),
            !.details = Append(@, [standard |-> bip_info.id,
                                   name |-> bip_info.name,
                                   compliant |-> TRUE,
                                   description |-> bip_info.description,
                                   warnings |-> BipWarnings(bip_info.id, text)])]
    ELSE res

\* detail.get("warnings", [])
GetWarnings(detail) ==
    IF "warnings" \in DOMAIN detail THEN detail.warnings ELSE <<>>

\* variant: only the first detail is inspected
AnyWarningFirst(res) ==
    /\ res.details # <<>>
    /\ \E j \in 1..Len(GetWarnings(res.details[1])) :
            GetWarnings(res.details[1])[j] # ""

\* any(warning for detail in results["details"] for warning in ...)
AnyWarning(res) ==
    \E i \in 1..Len(res.details) :
        \E j \in 1..Len(GetWarnings(res.details[i])) :
            GetWarnings(res.details[i])[j] # ""

\* variant: no match is not reported
SetComplianceNoError(res) ==
    IF AnyWarning(res)
    THEN [k \in DOMAIN res \cup {"warning"} |->
             IF k = "warning" THEN PassedWithWarnings ELSE res[k]]
    ELSE res

\* variant: a warning makes the report non-compliant
SetComplianceStrict(res) ==
    IF res.standards_checked = <<>>
    THEN [res EXCEPT !.compliant = FALSE,
                     !.details = Append(@, [error |-> NoStandardError])]
    ELSE IF AnyWarning(res)
         THEN [k \in DOMAIN res \cup {"warning"} |->
                  IF k = "warning" THEN PassedWithWarnings
                  ELSE IF k = "compliant" THEN FALSE ELSE res[k]]
         ELSE res

\* variant: the advisory is set whenever a standard was checked
SetComplianceAlwaysWarns(res) ==
    IF res.standards_checked = <<>>
    THEN [res EXCEPT !.compliant = FALSE,
                     !.details = Append(@, [error |-> NoStandardError])]
    ELSE [k \in DOMAIN res \cup {"warning"} |->
             IF k = "warning" THEN PassedWithWarnings ELSE res[k]]

\* the if / elif after the loop
SetCompliance(res) ==
    IF res.standards_checked = <<>>
    THEN [res EXCEPT !.compliant = FALSE,
                     !.details = Append(@, [error |-> NoStandardError])]
    ELSE IF AnyWarning(res)
         THEN [k \in DOMAIN res \cup {"warning"} |->
                  IF k = "warning" THEN PassedWithWarnings ELSE res[k]]
         ELSE res

RECURSIVE RunLoop(_, _, _, _)
RunLoop(registry, res, text, k) ==
    IF k > Len(registry) THEN res
    ELSE RunLoop(registry, LoopBody(res, registry[k], text), text, k + 1)

\* the whole function, on the registry as declared
validate_protocol(text) ==
    SetCompliance(RunLoop(RegistryDecl, NewResults, text, 1))

-----------------------------------------------------------------------------
(* Inputs *)

Fragments ==
    { <<"t", "r", "(", "K", "E", "Y", ",", "{", "S", "I", "L", "E", "N", "T",
        "_", "L", "E", "A", "F", "}", ")">>,
      <<"t", "r", "(", "K", "E", "Y", ",", "{", "O", "T", "H", "E", "R", "}", ")">>,
      <<"T", "R", "(", "k", "e", "y", ",", "{", "s", "i", "l", "e", "n", "t",
        "_", "l", "e", "a", "f", "}", ")">>,
      <<"t", "r", "(", "K", "E", "Y", ",", "{", "}", ")">>,
      <<"O", "P", "_", "C", "H", "E", "C", "K", "S", "I", "G">>,
      <<"o", "p", "_", "c", "h", "e", "c", "k", "s", "i", "g", "v", "e", "r",
        "i", "f", "y">>,
      <<"p", "s", "b", "t", ":", "0", "1", "2", "3", "4", "5", "6", "7", "8",
        "9", "a", "b", "c", "d", "e", "f">>,
      <<"P", "S", "B", "T", ":", "A", "F">>,
      <<"p", "s", "b", "t", ":", "v", "2", ":", "0", "a">>,
      <<"p", "s", "b", "t", ":">>,
      unsigned_tx,
      <<"U", "n", "s", "i", "g", "n", "e", "d", "_", "T", "x">>,
      <<"n", "o", " ", "m", "a", "r", "k", "e", "r", "s", " ", "h", "e", "r", "e">>,
      SILENT_LEAF,
      \* with characters outside ASCII: the long s, the Kelvin sign, the
      \* capital I with dot above and the dotless i
      <<"p", "U+017F", "b", "t", ":", "0", "a",
        "U", "N", "S", "U+0130", "G", "N", "E", "D", "_", "T", "X">>,
      <<"t", "r", "(", "U+212A", ",", "{", "x", "}", ")">>,
      <<"O", "P", "_", "C", "H", "E", "C", "U+212A", "U+017F", "U+0130", "G",
        "V", "E", "R", "U+0131", "F", "Y">> }

KeptFragments ==
    { <<"t", "r", "(", "K", "E", "Y", ",", "{", "O", "T", "H", "E", "R", "}", ")">>,
      <<"O", "P", "_", "C", "H", "E", "C", "K", "S", "I", "G">>,
      <<"P", "S", "B", "T", ":", "A", "F">>,
      <<"p", "s", "b", "t", ":", "v", "2", ":", "0", "a">>,
      unsigned_tx,
      <<"n", "o", " ", "m", "a", "r", "k", "e", "r", "s", " ", "h", "e", "r", "e">>,
      SILENT_LEAF }

\* the concatenations of at most n fragments
RECURSIVE Texts(_, _)
Texts(frags, n) ==
    IF n = 0 THEN {<<>>}
    ELSE LET T == Texts(frags, n - 1) IN T \cup {t \o f : t \in T, f \in frags}

Inputs == Texts(Fragments, MaxFrags)
KeptInputs == Texts(KeptFragments, MaxKeptFrags)

NoArgv == [has_input |-> FALSE, input |-> <<>>]
Argvs == {NoArgv} \cup {[has_input |-> TRUE, input |-> t] : t \in Inputs}

ObjIds == {1, 2}
Threads == {1, 2}
IdleThread == [pc |-> "idle", input_text |-> <<>>, idx |-> 1, results |-> 0]
NoKept == [ref |-> 0, input |-> <<>>]
\* run_command's return value: None, or the captured standard output
NoOutput == [none |-> TRUE, text |-> <<>>]
IdleHarness == [pc |-> "idle", i |-> 1, output |-> NoOutput, out |-> <<>>, stderr |-> ""]

DEFAULT_SERVER_URL == "http://localhost:8000"
\* the values given with --server on the command line
ServerOptions == {DEFAULT_SERVER_URL, "http://example.org:9000", "https://dwn.test"}
\* the command lines of the Web5 client: without and with --server
NoServerArgv == [has_server |-> FALSE, server |-> ""]
Web5Argvs == {NoServerArgv} \cup {[has_server |-> TRUE, server |-> u] : u \in ServerOptions}
\* the "id" of the server's answer to create_did; get gives None without it
Dids == {"did:ion:alice", "None"}
\* the values of str(uuid4()) for the record message
MessageIds == {"uuid-1", "uuid-2"}
IdleWeb5 == [pc |-> "start", args |-> [server |-> ""], server_url |-> "", did |-> "",
             message_id |-> "", requests |-> <<>>, exit_code |-> -1]

-----------------------------------------------------------------------------
(* sync_labelling: the repositories, their files and the history directories *)

DEFAULT_SOURCE == "anya-core"
\* the repositories of the model: the default source and two of DEFAULT_REPOS
Repos == {"anya-core", "anya-web5", "anya-mobile"}
LABELLING_FILE == "AI_LABELLING.md"
COMMIT_RULES_FILE == "COMMIT_RULES.md"
files_to_sync == <<LABELLING_FILE, COMMIT_RULES_FILE>>
SyncFiles == {LABELLING_FILE, COMMIT_RULES_FILE}

\* a path that does not exist, and a file with its content
NoFile == [exists |-> FALSE, data |-> ""]
File(data) == [exists |-> TRUE, data |-> data]
Contents == {"v0", "v1", "v2"}

\* a .label_history directory: absent, or its entries, one per file name
NoHistory == [exists |-> FALSE, entries |-> {}]
History(entries) == [exists |-> TRUE, entries |-> entries]
\* the name of a history file: always LABELLING_FILE and the timestamp
HistoryName(t) == <<LABELLING_FILE, t>>
HistoryEntry(t, data) == [name |-> HistoryName(t), data |-> data]

EmptyFs == [files |-> [r \in Repos |-> [f \in SyncFiles |-> NoFile]],
            dirs |-> {},
            history |-> [r \in Repos |-> NoHistory]]

\* the last seconds value of the clock of the model
MaxClock == 2
\* the number of direct calls of sync_file in one behaviour
MaxCalls == 2
\* the number of history files save_history keeps
HistoryKeep == 10

\* the states a repository that holds the source files can be found in
SourceRepoStates == [SyncFiles -> {NoFile, File("v2")}]

\* the states of a target repository: no directory, or a directory with each
\* file absent or present, without or with a history directory of one entry
TargetRepoStates ==
    {[dir |-> FALSE, files |-> [f \in SyncFiles |-> NoFile], history |-> NoHistory]}
    \cup {[dir |-> TRUE, files |-> fl, history |-> h] :
             fl \in [SyncFiles -> {NoFile, File("v1"), File("v2")}],
             h \in {NoHistory, History({HistoryEntry(0, "v0")})}}

\* the file system with the source and one target repository in given states
ArrangedFs(src, target_repo, tgt) ==
    [files |-> [r \in Repos |-> IF r = DEFAULT_SOURCE THEN src
                                ELSE IF r = target_repo THEN tgt.files
                                ELSE [f \in SyncFiles |-> NoFile]],
     dirs |-> {DEFAULT_SOURCE} \cup (IF tgt.dir THEN {target_repo} ELSE {}),
     history |-> [r \in Repos |-> IF r = target_repo THEN tgt.history ELSE NoHistory]]

\* hashlib.md5(...).hexdigest() of the contents of the model
md5(data) ==
    CASE data = "v0" -> "9abcde3c584628a02620bf796dee1204"
      [] data = "v1" -> "6654c734ccab8f440ff0825eb443dc7f"
      [] data = "v2" -> "1b267619c4812cc46ee281747884ca50"

None == "None"

get_file_hash(f, repo, filename) ==
    IF ~f.files[repo][filename].exists THEN None
    ELSE md5(f.files[repo][filename].data)

\* variant: the slice keeps the head of the sorted list
FirstEntries(entries, n) ==
    {e \in entries : Cardinality({d \in entries : d.name[2] < e.name[2]}) < n}

\* the entries with the largest names, as sorted(...)[-n:] picks them
LastEntries(entries, n) ==
    {e \in entries : Cardinality({d \in entries : d.name[2] > e.name[2]}) < n}

\* save_history(target_path, history_dir) at time t: create the directory,
\* copy the file to the timestamped name, keep the last 10 history files
save_history(f, t, repo, filename) ==
    LET copied == {e \in f.history[repo].entries : e.name # HistoryName(t)}
                  \cup {HistoryEntry(t, f.files[repo][filename].data)}
        kept_entries == IF Cardinality(copied) > HistoryKeep
                        THEN LastEntries(copied, HistoryKeep) ELSE copied
    IN [f EXCEPT !.history[repo] = History(kept_entries)]

SyncReturn(has_diff, synced, f) == [has_diff |-> has_diff, synced |-> synced, fs |-> f]

\* variant: the target directory is created before the mode is looked at
sync_file_eager_makedirs(f, t, source_repo, target_repo, filename, dry_run, check_only) ==
    LET source_hash == get_file_hash(f, source_repo, filename)
        target_hash == get_file_hash(f, target_repo, filename)
        made == [f EXCEPT !.dirs = @ \cup {target_repo}]
        saved == IF f.files[target_repo][filename].exists
                 THEN save_history(made, t, target_repo, filename) ELSE made
    IN IF ~f.files[source_repo][filename].exists THEN SyncReturn(FALSE, FALSE, f)
       ELSE IF source_hash = target_hash /\ target_hash # None
       THEN SyncReturn(FALSE, TRUE, made)
       ELSE IF target_hash # None /\ source_hash # target_hash /\ check_only
       THEN SyncReturn(TRUE, FALSE, made)
       ELSE IF ~check_only
       THEN IF dry_run THEN SyncReturn(TRUE, TRUE, made)
            ELSE SyncReturn(TRUE, TRUE,
                    [saved EXCEPT !.files[target_repo][filename] =
                                      f.files[source_repo][filename]])
       ELSE SyncReturn(TRUE, FALSE, made)

\* variant: no test for identical files, every call copies
sync_file_always_copies(f, t, source_repo, target_repo, filename, dry_run, check_only) ==
    LET made == [f EXCEPT !.dirs = @ \cup {target_repo}]
        saved == IF f.files[target_repo][filename].exists
                 THEN save_history(made, t, target_repo, filename) ELSE made
    IN IF ~f.files[source_repo][filename].exists THEN SyncReturn(FALSE, FALSE, f)
       ELSE IF f.files[target_repo][filename].exists /\ check_only
       THEN SyncReturn(TRUE, FALSE, f)
       ELSE IF ~check_only
       THEN IF dry_run THEN SyncReturn(TRUE, TRUE, f)
            ELSE SyncReturn(TRUE, TRUE,
                    [saved EXCEPT !.files[target_repo][filename] =
                                      f.files[source_repo][filename]])
       ELSE SyncReturn(TRUE, FALSE, f)

\* sync_file(source_repo, target_repo, filename, dry_run, check_only) on the
\* file system f at time t: what it returns and the file system it leaves
sync_file(f, t, source_repo, target_repo, filename, dry_run, check_only) ==
    LET source_hash == get_file_hash(f, source_repo, filename)
        target_hash == get_file_hash(f, target_repo, filename)
        made == [f EXCEPT !.dirs = @ \cup {target_repo}]
        saved == IF f.files[target_repo][filename].exists
                 THEN save_history(made, t, target_repo, filename) ELSE made
    IN IF ~f.files[source_repo][filename].exists THEN SyncReturn(FALSE, FALSE, f)
       ELSE IF source_hash = target_hash /\ target_hash # None
       THEN SyncReturn(FALSE, TRUE, f)
       ELSE IF target_hash # None /\ source_hash # target_hash /\ check_only
       THEN SyncReturn(TRUE, FALSE, f)
       ELSE IF ~check_only
       THEN IF dry_run THEN SyncReturn(TRUE, TRUE, f)
            ELSE SyncReturn(TRUE, TRUE,
                    [saved EXCEPT !.files[target_repo][filename] =
                                      f.files[source_repo][filename]])
       ELSE SyncReturn(TRUE, FALSE, f)

NoSyncCall == [n |-> 0, source_repo |-> "", target_repo |-> "", filename |-> "",
               dry_run |-> FALSE, check_only |-> FALSE,
               before |-> EmptyFs, has_diff |-> FALSE, synced |-> FALSE]

-----------------------------------------------------------------------------
(* sync_labelling: the command line, commit_changes and the locals of main *)

\* a --target value, as its names and the commas between them
TargetOptions ==
    { <<"anya-core", ",", "anya-web5", ",", "anya-mobile">>,
      <<"anya-web5">> }

\* args.target.split(","): the names between the commas, "" where there is none
RECURSIVE split(_)
split(tokens) ==
    IF \A n \in 1..Len(tokens) : tokens[n] # ","
    THEN IF tokens = <<>> THEN <<"">> ELSE <<tokens[1]>>
    ELSE LET c == CHOOSE n \in 1..Len(tokens) :
                     tokens[n] = "," /\ \A m \in 1..(n - 1) : tokens[m] # ","
         IN (IF c = 1 THEN <<"">> ELSE <<tokens[1]>>)
            \o split(SubSeq(tokens, c + 1, Len(tokens)))

\* the repositories of the list after the validation step of main
TargetRepos(args) ==
    IF \E n \in 1..Len(split(args.target)) : split(args.target)[n] = args.source
    THEN split(args.target)
    ELSE Append(split(args.target), args.source)

\* the keys of {repo: [] for repo in target_repos}, in insertion order
RECURSIVE DictKeys(_)
DictKeys(repos) ==
    IF repos = <<>> THEN <<>>
    ELSE LET front == DictKeys(SubSeq(repos, 1, Len(repos) - 1))
             last == repos[Len(repos)]
         IN IF \E n \in 1..Len(front) : front[n] = last THEN front ELSE Append(front, last)

\* the parsed command lines of the model
SyncArgs ==
    [source : {DEFAULT_SOURCE}, target : TargetOptions, check_only : BOOLEAN,
     dry_run : BOOLEAN, no_commit : BOOLEAN, batch_commit : BOOLEAN]
    \cup [source : {"anya-web5"}, target : TargetOptions, check_only : BOOLEAN,
          dry_run : {FALSE}, no_commit : {FALSE}, batch_commit : {FALSE}]

\* variant: no repository of the list is taken for the source
IsSourceRepoNever(repo, args) == FALSE

\* repo == args.source
IsSourceRepo(repo, args) == repo = args.source

\* what main finds around it: whether scripts/batch_commit.sh exists
SyncEnvs == [batch_script : BOOLEAN]

\* the states of the source repository main is run on: both files, only
\* AI_LABELLING.md, neither
MainSourceStates ==
    { [f \in SyncFiles |-> File("v2")],
      [f \in SyncFiles |-> IF f = LABELLING_FILE THEN File("v2") ELSE NoFile],
      [f \in SyncFiles |-> NoFile] }

\* the states of the target repositories main is run on
MainTargetStates ==
    { [dir |-> FALSE, files |-> [f \in SyncFiles |-> NoFile], history |-> NoHistory],
      [dir |-> TRUE, files |-> [f \in SyncFiles |-> File("v1")], history |-> NoHistory],
      [dir |-> TRUE, files |-> [f \in SyncFiles |-> File("v2")], history |-> NoHistory],
      [dir |-> TRUE,
       files |-> [f \in SyncFiles |-> IF f = LABELLING_FILE THEN File("v1") ELSE File("v0")],
       history |-> NoHistory] }

\* the file system with the source and the two target repositories
MainFs(src, web5_state, mobile_state) ==
    [files |-> [r \in Repos |-> IF r = DEFAULT_SOURCE THEN src
                                ELSE IF r = "anya-web5" THEN web5_state.files
                                ELSE mobile_state.files],
     dirs |-> {DEFAULT_SOURCE} \cup (IF web5_state.dir THEN {"anya-web5"} ELSE {})
                               \cup (IF mobile_state.dir THEN {"anya-mobile"} ELSE {}),
     history |-> [r \in Repos |-> IF r = "anya-web5" THEN web5_state.history
                                  ELSE IF r = "anya-mobile" THEN mobile_state.history
                                  ELSE NoHistory]]

\* a subprocess main ran for a repository
Command(cmd, repo, files) == [cmd |-> cmd, repo |-> repo, files |-> files]

\* the subprocesses of a direct git commit, in the order they are run
GitCommands(repo, changed_files) ==
    << Command("git --version", repo, <<>>),
       Command("git add", repo, changed_files),
       Command("git commit", repo, <<>>) >>

\* what a call of commit_changes comes to: the value it returns and the
\* subprocesses it ran, or raised when an exception leaves it
CommitReturn(ok, commands) == [ok |-> ok, commands |-> commands, raised |-> FALSE]

\* variant: the direct git commit does not look at --dry-run
commit_changes_ignores_dry_run(repo, changed_files, args, env, dirs, fail_at) ==
    IF changed_files = <<>> THEN CommitReturn(TRUE, <<>>)
    ELSE IF args.no_commit THEN CommitReturn(TRUE, <<>>)
    ELSE IF args.batch_commit
    THEN IF ~env.batch_script THEN CommitReturn(FALSE, <<>>)
         ELSE IF args.dry_run THEN CommitReturn(TRUE, <<>>)
         ELSE IF fail_at = -1 THEN [CommitReturn(FALSE, <<>>) EXCEPT !.raised = TRUE]
         ELSE CommitReturn(fail_at # 1, << Command("batch_commit.sh", repo, <<>>) >>)
    ELSE IF fail_at = -1 THEN [CommitReturn(FALSE, <<>>) EXCEPT !.raised = TRUE]
    ELSE IF fail_at = 1 THEN CommitReturn(FALSE, SubSeq(GitCommands(repo, changed_files), 1, 1))
    ELSE IF repo \notin dirs
    THEN [CommitReturn(FALSE, SubSeq(GitCommands(repo, changed_files), 1, 1))
             EXCEPT !.raised = TRUE]
    ELSE IF fail_at = 0 THEN CommitReturn(TRUE, GitCommands(repo, changed_files))
    ELSE CommitReturn(FALSE, SubSeq(GitCommands(repo, changed_files), 1, fail_at))

\* commit_changes(repo, changed_files, args): what it returns and the
\* subprocesses it runs, when subprocess number fail_at fails (0: none does);
\* dirs are the repository directories that exist.
\* With fail_at = -1 the executable, bash or git, cannot be started:
\* subprocess.run raises FileNotFoundError, which the except clause for
\* CalledProcessError does not catch. git add and git commit are started in
\* the repository directory: without that directory subprocess.run raises
\* FileNotFoundError as well, after git --version has run. batch_commit.sh
\* is started in the directory of the script's own repository.
commit_changes(repo, changed_files, args, env, dirs, fail_at) ==
    IF changed_files = <<>> THEN CommitReturn(TRUE, <<>>)
    ELSE IF args.no_commit THEN CommitReturn(TRUE, <<>>)
    ELSE IF args.batch_commit
    THEN IF ~env.batch_script THEN CommitReturn(FALSE, <<>>)
         ELSE IF args.dry_run THEN CommitReturn(TRUE, <<>>)
         ELSE IF fail_at = -1 THEN [CommitReturn(FALSE, <<>>) EXCEPT !.raised = TRUE]
         ELSE CommitReturn(fail_at # 1, << Command("batch_commit.sh", repo, <<>>) >>)
    ELSE IF args.dry_run THEN CommitReturn(TRUE, <<>>)
    ELSE IF fail_at = -1 THEN [CommitReturn(FALSE, <<>>) EXCEPT !.raised = TRUE]
    ELSE IF fail_at = 1 THEN CommitReturn(FALSE, SubSeq(GitCommands(repo, changed_files), 1, 1))
    ELSE IF repo \notin dirs
    THEN [CommitReturn(FALSE, SubSeq(GitCommands(repo, changed_files), 1, 1))
             EXCEPT !.raised = TRUE]
    ELSE IF fail_at = 0 THEN CommitReturn(TRUE, GitCommands(repo, changed_files))
    ELSE CommitReturn(FALSE, SubSeq(GitCommands(repo, changed_files), 1, fail_at))

\* the subprocess of a commit that fails: none, or one of the three of git;
\* -1 when the executable cannot be started
FailAts == -1..3

\* the status main exits with: sys.exit(1) in check-only mode with
\* differences, sys.exit(0) otherwise
SyncExitStatus(args, repos_with_diffs) ==
    IF args.check_only /\ repos_with_diffs # <<>> THEN 1 ELSE 0

NoSummary == [diffs |-> 0, diff_repos |-> <<>>, synced |-> 0, synced_repos |-> {}]
IdleSync ==
    [pc |-> "start",
     args |-> [source |-> "", target |-> <<>>, check_only |-> FALSE, dry_run |-> FALSE,
               no_commit |-> FALSE, batch_commit |-> FALSE],
     env |-> [batch_script |-> FALSE],
     fs_at_start |-> EmptyFs,
     target_repos |-> <<>>, r |-> 1, f |-> 1, repo_has_changes |-> FALSE,
     changes_by_repo |-> [x \in {} |-> <<>>],
     repos_with_diffs |-> <<>>, repos_synced |-> <<>>,
     k |-> 1, commands |-> <<>>, summary |-> NoSummary, exit_code |-> -1,
     calls |-> <<>>, commits |-> <<>>]

-----------------------------------------------------------------------------
(* State machine *)

Init ==
    /\ BIP_STANDARDS = RegistryDecl
    /\ pc = "idle"
    /\ input_text = <<>>
    /\ idx = 1
    /\ results = 0
    /\ heap = <<>>
    /\ kept = NoKept
    /\ main_pc = "start"
    /\ argv = NoArgv
    /\ stdout = <<>>
    /\ exit_code = -1
    /\ threads = [t \in Threads |-> IdleThread]
    /\ harness = IdleHarness
    /\ web5 = IdleWeb5
    /\ fs = EmptyFs
    /\ now = 1
    /\ sync_call = NoSyncCall
    /\ sync = IdleSync

\* variant: one results dict serves every call
NewRefShared == IF kept.ref # 0 THEN kept.ref ELSE 1

\* the dict display evaluates to a new object: no live reference names it
NewRef == CHOOSE r \in ObjIds : r # kept.ref /\ \A q \in ObjIds : q # kept.ref => r <= q

\* variant: the lists of the results dict are shared between calls
CallBodyStale(text) ==
    /\ input_text' = text
    /\ results' = NewRef
    /\ heap' = [r \in ((DOMAIN heap \cap {kept.ref}) \cup {NewRef}) |->
                  IF r # NewRef THEN heap[r]
                  ELSE IF results \in DOMAIN heap
                       THEN [NewResults EXCEPT
                               !.standards_checked = heap[results].standards_checked,
                               !.details = heap[results].details]
                       ELSE NewResults]
    /\ idx' = 1
    /\ pc' = "loop"
    /\ UNCHANGED BIP_STANDARDS

\* entry of validate_protocol: bind the argument, build the results dict
CallBody(text) ==
    /\ input_text' = text
    /\ results' = NewRef
    /\ heap' = [r \in ((DOMAIN heap \cap {kept.ref}) \cup {NewRef}) |->
                  IF r = NewRef THEN NewResults ELSE heap[r]]
    /\ idx' = 1
    /\ pc' = "loop"
    /\ UNCHANGED BIP_STANDARDS

\* a first call of validate_protocol
Call(text) ==
    /\ pc = "idle"
    /\ CallBody(text)
    /\ UNCHANGED <<kept, mainVars, extVars>>

\* a further call, after an earlier one returned
CallAgain(text) ==
    /\ pc = "returned"
    /\ CallBody(text)
    /\ UNCHANGED <<kept, mainVars, extVars>>

\* variant: the loop does not advance to the next registry entry
LoopStepStuck ==
    /\ pc = "loop"
    /\ idx <= Len(BIP_STANDARDS)
    /\ heap' = [heap EXCEPT ![results] = LoopBody(@, BIP_STANDARDS[idx], input_text)]
    /\ idx' = idx
    /\ UNCHANGED <<BIP_STANDARDS, pc, input_text, results, kept, mainVars, extVars>>

\* one iteration of the for loop
LoopStep ==
    /\ pc = "loop"
    /\ idx <= Len(BIP_STANDARDS)
    /\ heap' = [heap EXCEPT ![results] = LoopBody(@, BIP_STANDARDS[idx], input_text)]
    /\ idx' = idx + 1
    /\ UNCHANGED <<BIP_STANDARDS, pc, input_text, results, kept, mainVars, extVars>>

\* loop exhausted: overall compliance, then return results
SetComplianceStep ==
    /\ pc = "loop"
    /\ idx > Len(BIP_STANDARDS)
    /\ heap' = [heap EXCEPT ![results] = SetCompliance(@)]
    /\ pc' = "returned"
    /\ UNCHANGED <<BIP_STANDARDS, input_text, idx, results, kept, mainVars, extVars>>

\* a caller retains the report it was handed
Keep ==
    /\ pc = "returned"
    /\ kept.ref # results
    /\ kept' = [ref |-> results, input |-> input_text]
    /\ heap' = [r \in {results} |-> heap[r]]
    /\ UNCHANGED <<BIP_STANDARDS, pc, input_text, idx, results, mainVars, extVars>>

Next ==
    \/ \E text \in Inputs : Call(text)
    \/ LoopStep
    \/ SetComplianceStep

Spec == Init /\ [][Next]_vars

\* a call that has started keeps running: Python runs the function to its end
SpecLive == Init /\ [][Next]_vars /\ WF_vars(LoopStep) /\ WF_vars(SetComplianceStep)

NextKept ==
    \/ \E text \in KeptInputs : Call(text)
    \/ \E text \in KeptInputs : CallAgain(text)
    \/ LoopStep
    \/ SetComplianceStep
    \/ Keep

SpecKept == Init /\ [][NextKept]_vars


-----------------------------------------------------------------------------
(* Concurrent callers: every call has its own locals, the heap is shared *)

\* variant: the results dict is a module-level object shared by the callers
ThreadNewRefShared(t) == 1

\* the dict display of thread t evaluates to an object no other thread holds
ThreadNewRef(t) ==
    CHOOSE r \in ObjIds :
        /\ \A u \in Threads \ {t} : threads[u].results # r
        /\ \A q \in ObjIds : (\A u \in Threads \ {t} : threads[u].results # q) => r <= q

\* thread t enters validate_protocol
ThreadCall(t, text) ==
    /\ threads[t].pc = "idle"
    /\ heap' = [r \in DOMAIN heap \cup {ThreadNewRef(t)} |->
                  IF r = ThreadNewRef(t) THEN NewResults ELSE heap[r]]
    /\ threads' = [threads EXCEPT ![t] = [pc |-> "loop", input_text |-> text,
                                          idx |-> 1, results |-> ThreadNewRef(t)]]
    /\ UNCHANGED <<BIP_STANDARDS, pc, input_text, idx, results, kept, mainVars,
                   harness, web5, syncVars>>

\* thread t runs one iteration of its for loop
ThreadLoopStep(t) ==
    /\ threads[t].pc = "loop"
    /\ threads[t].idx <= Len(BIP_STANDARDS)
    /\ heap' = [heap EXCEPT ![threads[t].results] =
                  LoopBody(@, BIP_STANDARDS[threads[t].idx], threads[t].input_text)]
    /\ threads' = [threads EXCEPT ![t].idx = @ + 1]
    /\ UNCHANGED <<BIP_STANDARDS, pc, input_text, idx, results, kept, mainVars,
                   harness, web5, syncVars>>

\* thread t leaves the loop, sets the overall compliance and returns
ThreadSetComplianceStep(t) ==
    /\ threads[t].pc = "loop"
    /\ threads[t].idx > Len(BIP_STANDARDS)
    /\ heap' = [heap EXCEPT ![threads[t].results] = SetCompliance(@)]
    /\ threads' = [threads EXCEPT ![t].pc = "returned"]
    /\ UNCHANGED <<BIP_STANDARDS, pc, input_text, idx, results, kept, mainVars,
                   harness, web5, syncVars>>

NextConc ==
    \E t \in Threads :
        \/ \E text \in KeptInputs : ThreadCall(t, text)
        \/ ThreadLoopStep(t)
        \/ ThreadSetComplianceStep(t)

SpecConc == Init /\ [][NextConc]_vars

-----------------------------------------------------------------------------
(* main: the command-line wrapper *)

JsonBool(b) == IF b THEN "true" ELSE "false"

\* one entry of details, as its key / value pairs in insertion order
JsonDetail(d) ==
    IF "error" \in DOMAIN d
    THEN << <<"error", d.error>> >>
    ELSE << <<"standard", d.standard>>, <<"name", d.name>>,
            <<"compliant", JsonBool(d.compliant)>>,
            <<"description", d.description>>, <<"warnings", d.warnings>> >>

\* json.dumps(results, indent=2): the key / value pairs in insertion order
json_dumps(res) ==
    << <<"validation_performed", JsonBool(res.validation_performed)>>,
       <<"timestamp", res.timestamp>>,
       <<"standards_checked", res.standards_checked>>,
       <<"compliant", JsonBool(res.compliant)>>,
       <<"details", [i \in 1..Len(res.details) |-> JsonDetail(res.details[i])]>> >>
    \o (IF "warning" \in DOMAIN res THEN << <<"warning", res.warning>> >> ELSE <<>>)

\* the value printed for a key of a serialized object
JsonGet(obj, key) == obj[CHOOSE i \in 1..Len(obj) : obj[i][1] = key][2]

\* the status main leaves with after printing
ExitStatusStrict(res) == IF ~res.compliant \/ "warning" \in DOMAIN res THEN 1 ELSE 0

ExitStatus(res) == IF ~res.compliant THEN 1 ELSE 0

\* parser.parse_args(): --input is required, argparse exits with 2 without it
MainParseArgs(a) ==
    /\ main_pc = "start"
    /\ pc = "idle"
    /\ argv' = a
    /\ IF a.has_input
       THEN main_pc' = "parsed" /\ UNCHANGED exit_code
       ELSE main_pc' = "exited" /\ exit_code' = 2
    /\ UNCHANGED <<validatorVars, kept, stdout, extVars>>

\* results = validate_protocol(args.input): enter the function
MainCall ==
    /\ main_pc = "parsed"
    /\ pc = "idle"
    /\ CallBody(argv.input)
    /\ main_pc' = "validating"
    /\ UNCHANGED <<kept, argv, stdout, exit_code, extVars>>

\* print(json.dumps(results, indent=2))
MainPrint ==
    /\ main_pc = "validating"
    /\ pc = "returned"
    /\ stdout' = Append(stdout, json_dumps(heap[results]))
    /\ main_pc' = "printed"
    /\ UNCHANGED <<validatorVars, kept, argv, exit_code, extVars>>

\* sys.exit(1) if not compliant, else main returns and the process exits 0
MainExit ==
    /\ main_pc = "printed"
    /\ exit_code' = ExitStatus(heap[results])
    /\ main_pc' = "exited"
    /\ UNCHANGED <<validatorVars, kept, argv, stdout, extVars>>

NextMain ==
    \/ \E a \in Argvs : MainParseArgs(a)
    \/ MainCall
    \/ LoopStep
    \/ SetComplianceStep
    \/ MainPrint
    \/ MainExit

SpecMain == Init /\ [][NextMain]_vars

-----------------------------------------------------------------------------
(* test_mcp_tools: the harness that runs the validator as a subprocess *)

test_cases ==
    <<
      <<"V", "e", "r", "i", "f", "y", " ", "t", "h", "i", "s", " ", "t",
        "r", "a", "n", "s", "a", "c", "t", "i", "o", "n", " ", "f", "o",
        "l", "l", "o", "w", "s", " ", "B", "I", "P", "-", "3", "4", "1",
        " ", "t", "a", "p", "r", "o", "o", "t", " ", "s", "t", "a", "n",
        "d", "a", "r", "d", ":", " ", "t", "r", "(", "K", "E", "Y", ",",
        "{", "S", "I", "L", "E", "N", "T", "_", "L", "E", "A", "F", "}",
        ")">>,
      <<"C", "h", "e", "c", "k", " ", "P", "S", "B", "T", " ", "f", "o",
        "r", "m", "a", "t", ":", " ", "p", "s", "b", "t", ":", "0", "1",
        "2", "3", "4", "5", "6", "7", "8", "9", "a", "b", "c", "d", "e",
        "f">>,
      <<"I", "n", "v", "a", "l", "i", "d", " ", "i", "n", "p", "u", "t",
        " ", "w", "i", "t", "h", " ", "n", "o", " ", "p", "r", "o", "t",
        "o", "c", "o", "l", " ", "r", "e", "f", "e", "r", "e", "n", "c",
        "e", "s">>
    >>

\* json.loads of one printed report: the keys with their values, booleans parsed
json_loads(obj) ==
    [k \in {obj[n][1] : n \in 1..Len(obj)} |->
        IF k \in {"validation_performed", "compliant"}
        THEN JsonGet(obj, k) = "true"
        ELSE JsonGet(obj, k)]

\* result.get(key, default)
DictGet(d, key, default) == IF key \in DOMAIN d THEN d[key] ELSE default

HarnessLine(kind, value) == [case |-> harness.i, kind |-> kind, value |-> value]

\* the lines printed for a parsed report
ReportLines(result) ==
    << HarnessLine("Result", IF DictGet(result, "compliant", FALSE)
                             THEN "Compliant" ELSE "Non-compliant"),
       HarnessLine("Standards checked", DictGet(result, "standards_checked", <<>>)) >>
    \o (IF "warning" \in DOMAIN result
        THEN << HarnessLine("Warning", result["warning"]) >> ELSE <<>>)
    \o << HarnessLine("Details", DictGet(result, "details", <<>>)) >>

\* print_header and the test_cases display
HarnessStart ==
    /\ harness.pc = "idle"
    /\ main_pc = "start"
    /\ pc = "idle"
    /\ harness' = [harness EXCEPT !.pc = "loop", !.i = 1]
    /\ UNCHANGED <<validatorVars, kept, mainVars, threads, web5, syncVars>>

\* the command of run_command: the interpreter and the script, a relative path
PythonCommand == "python"
ValidatorScript == "scripts/validate_bitcoin_protocol.py"

\* the name the interpreter gives itself in its messages: the command, or
\* the full path of the executable behind it
Interpreters == {PythonCommand, "/usr/local/bin/python"}
\* the working directories of the harness
WorkingDirs == {"/repo"}
\* the script as the interpreter names it: as given, or made absolute from
\* the working directory, by the version of the interpreter
ScriptPaths == {ValidatorScript} \cup {cwd \o "/" \o ValidatorScript : cwd \in WorkingDirs}

\* what the interpreter writes to its standard error, a line, when it
\* cannot open its script
CantOpenFile(prog, path) ==
    prog \o ": can't open file '" \o path \o "': [Errno 2] No such file or directory\n"

\* print the test case and start the validator process on it. The script path
\* is relative: when it is not found from the working directory, the
\* interpreter, which names itself prog and the script path, writes "can't
\* open file" to its standard error and exits with 2. When there is no python
\* to start, subprocess.run raises FileNotFoundError, which run_command does
\* not catch: the harness ends there.
HarnessSpawn(outcome, prog, path) ==
    /\ harness.pc = "loop"
    /\ harness.i <= Len(test_cases)
    /\ harness' = [harness EXCEPT
                      !.pc = IF outcome = "no_python" THEN "crashed" ELSE "waiting",
                      !.stderr = IF outcome = "no_script"
                                 THEN CantOpenFile(prog, path)
                                 ELSE "",
                      !.out = Append(@, HarnessLine("Test case", test_cases[harness.i]))]
    /\ argv' = [has_input |-> TRUE, input |-> test_cases[harness.i]]
    /\ pc' = "idle"
    /\ input_text' = <<>>
    /\ idx' = 1
    /\ results' = 0
    /\ heap' = <<>>
    /\ stdout' = <<>>
    /\ CASE outcome = "runs" -> main_pc' = "parsed" /\ exit_code' = -1
         [] outcome = "no_script" -> main_pc' = "exited" /\ exit_code' = 2
         [] outcome = "no_python" -> main_pc' = "start" /\ exit_code' = -1
    /\ UNCHANGED <<BIP_STANDARDS, kept, threads, web5, syncVars>>

\* run_command: subprocess.run(..., check=True) raises CalledProcessError on
\* a non-zero exit status, which is printed with the child's standard error
\* and turned into None
HarnessRunCommand ==
    /\ harness.pc = "waiting"
    /\ main_pc = "exited"
    /\ harness' = [harness EXCEPT
                      !.pc = "collected",
                      !.output = IF exit_code # 0
                                 THEN NoOutput
                                 ELSE [none |-> FALSE, text |-> stdout],
                      !.out = IF exit_code # 0
                              THEN @ \o << HarnessLine("Error running command", exit_code),
                                           HarnessLine("stderr", harness.stderr) >>
                              ELSE @]
    /\ UNCHANGED <<validatorVars, kept, mainVars, threads, web5, syncVars>>

\* if output: parse the report and print its lines
HarnessReport ==
    /\ harness.pc = "collected"
    /\ harness' = [harness EXCEPT
                      !.pc = "reported",
                      !.out = IF ~harness.output.none /\ harness.output.text # <<>>
                              THEN @ \o ReportLines(json_loads(harness.output.text[1]))
                              ELSE @]
    /\ UNCHANGED <<validatorVars, kept, mainVars, threads, web5, syncVars>>

\* print("-" * 40) and go on with the next test case
HarnessSeparator ==
    /\ harness.pc = "reported"
    /\ harness' = [harness EXCEPT
                      !.pc = IF harness.i < Len(test_cases) THEN "loop" ELSE "done",
                      !.i = @ + 1,
                      !.out = Append(@, HarnessLine("separator", "-"))]
    /\ UNCHANGED <<validatorVars, kept, mainVars, threads, web5, syncVars>>

NextHarness ==
    \/ HarnessStart
    \/ \E outcome \in {"runs", "no_script", "no_python"} :
          \E prog \in Interpreters, path \in ScriptPaths :
              HarnessSpawn(outcome, prog, path)
    \/ MainCall
    \/ LoopStep
    \/ SetComplianceStep
    \/ MainPrint
    \/ MainExit
    \/ HarnessRunCommand
    \/ HarnessReport
    \/ HarnessSeparator

SpecHarness == Init /\ [][NextHarness]_vars

-----------------------------------------------------------------------------
(* web5_dwn_test_client: the demonstration run of the Web5 DWN client *)

\* client = Web5Client(): the constructor's default, whatever was parsed
ClientServerUrl(args) == DEFAULT_SERVER_URL

\* one request of the session: the method and the f-string url
Request(method, path) == [method |-> method, server |-> web5.server_url, path |-> path]

\* a method of Web5Client: send the request; a connection error or
\* raise_for_status raises, which __main__ reports and turns into exit status 1
Web5Send(from, to, method, path, ok) ==
    /\ web5.pc = from
    /\ web5' = [web5 EXCEPT
                   !.requests = Append(@, Request(method, path)),
                   !.pc = IF ok THEN to ELSE "exited",
                   !.exit_code = IF ok THEN @ ELSE 1]

\* parser.parse_args(): --server defaults to DEFAULT_SERVER_URL
Web5ParseArgs(a) ==
    /\ web5.pc = "start"
    /\ web5' = [web5 EXCEPT
                   !.pc = "parsed",
                   !.args = [server |-> IF a.has_server THEN a.server
                                                      ELSE DEFAULT_SERVER_URL]]
    /\ UNCHANGED <<validatorVars, kept, mainVars, threads, harness, syncVars>>

\* demo_web5_dwn_functionality(): client = Web5Client()
Web5NewClient ==
    /\ web5.pc = "parsed"
    /\ web5' = [web5 EXCEPT !.pc = "create_did", !.server_url = ClientServerUrl(web5.args)]
    /\ UNCHANGED <<validatorVars, kept, mainVars, threads, harness, syncVars>>

\* client.create_did(); did = did_result.get("id")
Web5CreateDid(ok, did) ==
    /\ web5.pc = "create_did"
    /\ web5' = [web5 EXCEPT
                   !.requests = Append(@, Request("POST", <<"api", "web5", "did">>)),
                   !.pc = IF ok THEN "create_dwn" ELSE "exited",
                   !.exit_code = IF ok THEN @ ELSE 1,
                   !.did = IF ok THEN did ELSE @]
    /\ UNCHANGED <<validatorVars, kept, mainVars, threads, harness, syncVars>>

\* client.create_dwn(did)
Web5CreateDwn(ok) ==
    /\ Web5Send("create_dwn", "process", "POST", <<"api", "web5", "dwn", "create">>, ok)
    /\ UNCHANGED <<validatorVars, kept, mainVars, threads, harness, syncVars>>

\* record_message = create_record_message(did, record_data), with a fresh
\* uuid as its id, and client.process_dwn_message_enhanced(...)
Web5ProcessEnhanced(ok, id) ==
    /\ web5.pc = "process"
    /\ web5' = [web5 EXCEPT
                   !.requests = Append(@, Request("POST",
                                    <<"api", "web5", "dwn", "process", "enhanced">>)),
                   !.pc = IF ok THEN "status" ELSE "exited",
                   !.exit_code = IF ok THEN @ ELSE 1,
                   !.message_id = IF ok THEN id ELSE @]
    /\ UNCHANGED <<validatorVars, kept, mainVars, threads, harness, syncVars>>

\* client.get_dwn_anchoring_status(did, message_id)
Web5Status(ok) ==
    /\ Web5Send("status", "query", "GET",
                <<"api", "web5", "dwn", "status", web5.did, web5.message_id>>, ok)
    /\ UNCHANGED <<validatorVars, kept, mainVars, threads, harness, syncVars>>

\* client.query_dwn(did, query_message)
Web5Query(ok) ==
    /\ Web5Send("query", "verify", "POST", <<"api", "web5", "dwn", "query">>, ok)
    /\ UNCHANGED <<validatorVars, kept, mainVars, threads, harness, syncVars>>

\* client.verify_dwn_anchoring(did, message_id)
Web5Verify(ok) ==
    /\ Web5Send("verify", "complete", "GET",
                <<"api", "web5", "dwn", "verify", web5.did, web5.message_id>>, ok)
    /\ UNCHANGED <<validatorVars, kept, mainVars, threads, harness, syncVars>>

\* "Demonstration complete!": the function returns and the process exits 0
Web5Complete ==
    /\ web5.pc = "complete"
    /\ web5' = [web5 EXCEPT !.pc = "exited", !.exit_code = 0]
    /\ UNCHANGED <<validatorVars, kept, mainVars, threads, harness, syncVars>>

NextWeb5 ==
    \/ \E a \in Web5Argvs : Web5ParseArgs(a)
    \/ Web5NewClient
    \/ \E ok \in BOOLEAN, did \in Dids : Web5CreateDid(ok, did)
    \/ \E ok \in BOOLEAN : Web5CreateDwn(ok)
    \/ \E ok \in BOOLEAN, id \in MessageIds : Web5ProcessEnhanced(ok, id)
    \/ \E ok \in BOOLEAN : Web5Status(ok)
    \/ \E ok \in BOOLEAN : Web5Query(ok)
    \/ \E ok \in BOOLEAN : Web5Verify(ok)
    \/ Web5Complete

SpecWeb5 == Init /\ [][NextWeb5]_vars

-----------------------------------------------------------------------------
(* sync_labelling: direct calls of sync_file *)

\* the repositories as the caller finds them
SyncArrange(src, target_repo, tgt) ==
    /\ sync_call.n = 0
    /\ fs = EmptyFs
    /\ fs' = ArrangedFs(src, target_repo, tgt)
    /\ UNCHANGED <<validatorVars, kept, mainVars, threads, harness, web5, now, sync_call, sync>>

\* a second passes
Tick ==
    /\ now < MaxClock
    /\ now' = now + 1
    /\ UNCHANGED <<validatorVars, kept, mainVars, threads, harness, web5, fs, sync_call, sync>>

\* one call of sync_file from the source repository to a target repository
SyncFileCall(target_repo, filename, dry_run, check_only) ==
    /\ fs # EmptyFs
    /\ sync_call.n < MaxCalls
    /\ LET r == sync_file(fs, now, DEFAULT_SOURCE, target_repo, filename, dry_run, check_only)
       IN /\ fs' = r.fs
          /\ sync_call' = [n |-> sync_call.n + 1, source_repo |-> DEFAULT_SOURCE,
                           target_repo |-> target_repo, filename |-> filename,
                           dry_run |-> dry_run, check_only |-> check_only,
                           before |-> fs, has_diff |-> r.has_diff, synced |-> r.synced]
    /\ UNCHANGED <<validatorVars, kept, mainVars, threads, harness, web5, now, sync>>

NextSyncFile ==
    \/ \E src \in SourceRepoStates, tgt \in TargetRepoStates :
          SyncArrange(src, "anya-web5", tgt)
    \/ Tick
    \/ \E filename \in SyncFiles, dry_run \in BOOLEAN, check_only \in BOOLEAN :
          SyncFileCall("anya-web5", filename, dry_run, check_only)

SpecSyncFile == Init /\ [][NextSyncFile]_vars

-----------------------------------------------------------------------------
(* sync_labelling: direct calls of save_history *)

\* the history directories a call can find: none, an empty one, and one with
\* nine or ten copies saved in earlier seconds
HistoryStates ==
    {NoHistory, History({})}
    \cup {History({HistoryEntry(1 - k, "v0") : k \in 1..n}) : n \in {HistoryKeep - 1, HistoryKeep}}

\* a target repository with both files and a history directory as found
HistoryArrange(fl, h) ==
    /\ sync_call.n = 0
    /\ fs = EmptyFs
    /\ fs' = ArrangedFs([f \in SyncFiles |-> File("v2")], "anya-web5",
                        [dir |-> TRUE, files |-> fl, history |-> h])
    /\ UNCHANGED <<validatorVars, kept, mainVars, threads, harness, web5, now, sync_call, sync>>

\* one call of save_history on a file of the target repository
SaveHistoryCall(target_repo, filename) ==
    /\ fs # EmptyFs
    /\ sync_call.n < MaxCalls
    /\ fs.files[target_repo][filename].exists
    /\ fs' = save_history(fs, now, target_repo, filename)
    /\ sync_call' = [n |-> sync_call.n + 1, source_repo |-> target_repo,
                     target_repo |-> target_repo, filename |-> filename,
                     dry_run |-> FALSE, check_only |-> FALSE,
                     before |-> fs, has_diff |-> FALSE, synced |-> FALSE]
    /\ UNCHANGED <<validatorVars, kept, mainVars, threads, harness, web5, now, sync>>

NextHistory ==
    \/ \E fl \in [SyncFiles -> {File("v1"), File("v2")}], h \in HistoryStates :
          HistoryArrange(fl, h)
    \/ Tick
    \/ \E filename \in SyncFiles : SaveHistoryCall("anya-web5", filename)

SpecHistory == Init /\ [][NextHistory]_vars

-----------------------------------------------------------------------------
(* sync_labelling: main *)

notSync == <<validatorVars, kept, mainVars, threads, harness, web5, sync_call>>

\* parse_args(), the target list and the locals of main, on the repositories
\* as main finds them
SyncMainStart(args, env, src, web5_state, mobile_state) ==
    /\ sync.pc = "start"
    /\ sync_call.n = 0
    /\ fs = EmptyFs
    /\ fs' = MainFs(src, web5_state, mobile_state)
    /\ sync' = [sync EXCEPT
                   !.pc = "sync",
                   !.args = args,
                   !.env = env,
                   !.fs_at_start = MainFs(src, web5_state, mobile_state),
                   !.target_repos = TargetRepos(args),
                   !.changes_by_repo =
                       [repo \in {TargetRepos(args)[n] : n \in 1..Len(TargetRepos(args))}
                           |-> <<>>]]
    /\ UNCHANGED <<notSync, now>>

\* a second passes while main works through the repositories
SyncTick ==
    /\ sync.pc = "sync"
    /\ sync.r <= Len(sync.target_repos)
    /\ now < MaxClock
    /\ now' = now + 1
    /\ UNCHANGED <<notSync, fs, sync>>

\* if repo == args.source: continue
SyncMainSkipSource ==
    /\ sync.pc = "sync"
    /\ sync.r <= Len(sync.target_repos)
    /\ IsSourceRepo(sync.target_repos[sync.r], sync.args)
    /\ sync' = [sync EXCEPT !.r = @ + 1]
    /\ UNCHANGED <<notSync, fs, now>>

\* one iteration of the loop over files_to_sync for the repository at hand;
\* after the last file the repository is noted when it had changes
SyncMainFile ==
    /\ sync.pc = "sync"
    /\ sync.r <= Len(sync.target_repos)
    /\ ~IsSourceRepo(sync.target_repos[sync.r], sync.args)
    /\ LET repo == sync.target_repos[sync.r]
           filename == files_to_sync[sync.f]
           res == sync_file(fs, now, sync.args.source, repo, filename,
                            sync.args.dry_run, sync.args.check_only)
           changed == sync.repo_has_changes \/ res.has_diff
           last == sync.f = Len(files_to_sync)
       IN /\ fs' = res.fs
          /\ sync' = [sync EXCEPT
                         !.changes_by_repo[repo] =
                             IF res.has_diff THEN Append(@, filename) ELSE @,
                         !.repos_synced =
                             IF res.synced /\ ~sync.args.check_only
                             THEN Append(@, repo) ELSE @,
                         !.repos_with_diffs =
                             IF last /\ changed THEN Append(@, repo) ELSE @,
                         !.repo_has_changes = IF last THEN FALSE ELSE changed,
                         !.calls = Append(@, [target_repo |-> repo, filename |-> filename,
                                              has_diff |-> res.has_diff,
                                              synced |-> res.synced]),
                         !.f = IF last THEN 1 ELSE @ + 1,
                         !.r = IF last THEN @ + 1 ELSE @]
    /\ UNCHANGED <<notSync, now>>

\* the loop over the repositories is through: if not args.check_only
SyncMainEndLoop ==
    /\ sync.pc = "sync"
    /\ sync.r > Len(sync.target_repos)
    /\ sync' = [sync EXCEPT !.pc = IF sync.args.check_only THEN "summary" ELSE "commit"]
    /\ UNCHANGED <<notSync, fs, now>>

\* a repository of changes_by_repo that is the source or has no changed file
SyncMainCommitSkip ==
    /\ sync.pc = "commit"
    /\ sync.k <= Len(DictKeys(sync.target_repos))
    /\ LET repo == DictKeys(sync.target_repos)[sync.k]
       IN sync.changes_by_repo[repo] = <<>> \/ IsSourceRepo(repo, sync.args)
    /\ sync' = [sync EXCEPT !.k = @ + 1]
    /\ UNCHANGED <<notSync, fs, now>>

\* commit_changes(repo, changed_files, args) for a repository with changes;
\* an exception that leaves commit_changes leaves main too: no summary, a
\* traceback and exit status 1
SyncMainCommit(fail_at) ==
    /\ sync.pc = "commit"
    /\ sync.k <= Len(DictKeys(sync.target_repos))
    /\ LET repo == DictKeys(sync.target_repos)[sync.k]
           res == commit_changes(repo, sync.changes_by_repo[repo],
                                 sync.args, sync.env, fs.dirs, fail_at)
       IN /\ sync.changes_by_repo[repo] # <<>>
          /\ ~IsSourceRepo(repo, sync.args)
          /\ sync' = [sync EXCEPT
                         !.pc = IF res.raised THEN "crashed" ELSE @,
                         !.exit_code = IF res.raised THEN 1 ELSE @,
                         !.k = IF res.raised THEN @ ELSE @ + 1,
                         !.commands = @ \o res.commands,
                         !.commits = Append(@, [repo |-> repo, ok |-> res.ok,
                                                raised |-> res.raised])]
    /\ UNCHANGED <<notSync, fs, now>>

\* the loop over changes_by_repo.items() is through
SyncMainCommitDone ==
    /\ sync.pc = "commit"
    /\ sync.k > Len(DictKeys(sync.target_repos))
    /\ sync' = [sync EXCEPT !.pc = "summary"]
    /\ UNCHANGED <<notSync, fs, now>>

\* the summary and the exit status
SyncMainSummary ==
    /\ sync.pc = "summary"
    /\ sync' = [sync EXCEPT
                   !.pc = "exited",
                   !.summary = [diffs |-> Len(sync.repos_with_diffs),
                                diff_repos |-> sync.repos_with_diffs,
                                synced |-> IF sync.args.check_only THEN 0
                                           ELSE Len(sync.repos_synced),
                                synced_repos |-> IF sync.args.check_only THEN {}
                                                 ELSE Range(sync.repos_synced)],
                   !.exit_code = SyncExitStatus(sync.args, sync.repos_with_diffs)]
    /\ UNCHANGED <<notSync, fs, now>>

NextSync ==
    \/ \E args \in SyncArgs, env \in SyncEnvs, src \in MainSourceStates,
          web5_state \in MainTargetStates,
          mobile_state \in {s \in MainTargetStates :
                               s.dir /\ s.files[LABELLING_FILE] = s.files[COMMIT_RULES_FILE]} :
          SyncMainStart(args, env, src, web5_state, mobile_state)
    \/ SyncTick
    \/ SyncMainSkipSource
    \/ SyncMainFile
    \/ SyncMainEndLoop
    \/ SyncMainCommitSkip
    \/ \E fail_at \in FailAts : SyncMainCommit(fail_at)
    \/ SyncMainCommitDone
    \/ SyncMainSummary

SpecSync == Init /\ [][NextSync]_vars

-----------------------------------------------------------------------------
(* Vocabulary of the properties *)

Returned == pc = "returned"
Report == heap[results]

StandardIds == <<"BIP-341", "BIP-342", "BIP-174", "BIP-370">>
DetailFields == {"standard", "name", "compliant", "description", "warnings"}
ErrorEntry == [error |-> NoStandardError]

\* the standards whose detection pattern matches the text, ignoring case
Matching(text) ==
    {k \in 1..Len(RegistryDecl) :
        re_search(RegistryDecl[k].validation_regex, text, TRUE)}

Count(x, seq) == Cardinality({i \in 1..Len(seq) : seq[i] = x})

\* some detail of the report has a non-empty warnings sequence
SomeDetailWarns(res) ==
    \E i \in 1..Len(res.details) :
        /\ "warnings" \in DOMAIN res.details[i]
        /\ res.details[i].warnings # <<>>

NoMarkersHere ==
    <<"n", "o", " ", "m", "a", "r", "k", "e", "r", "s", " ", "h", "e", "r", "e">>

-----------------------------------------------------------------------------
(* Properties *)

\* C1: a call on a text that matches none of the four patterns returns a
\* report with standards_checked empty, compliant false and details holding
\* exactly the one "no recognized standards" error entry.
C1_UnmatchedInput ==
    (Returned /\ Matching(input_text) = {}) =>
        /\ Report.standards_checked = <<>>
        /\ Report.compliant = FALSE
        /\ Len(Report.details) = 1
        /\ Report.details[1] = ErrorEntry

C1_Witness ==
    /\ Returned
    /\ input_text = NoMarkersHere
    /\ Report.details = <<ErrorEntry>>
    /\ ~Report.compliant

\* C2: warning policy: when some detail of the returned report has a
\* non-empty warnings sequence, the report carries the fixed top-level
\* warning and compliant is still true.
C2_WarningPolicy ==
    (Returned /\ SomeDetailWarns(Report)) =>
        /\ "warning" \in DOMAIN Report
        /\ Report.warning = PassedWithWarnings
        /\ Report.compliant = TRUE

C2_Witness ==
    /\ Returned
    /\ Len(Report.details) = 2
    /\ Report.details[1].warnings = <<>>
    /\ Report.details[2].warnings # <<>>
    /\ "warning" \in DOMAIN Report

\* the letter a character stands for, whatever its case: the lower case of
\* its upper case (s for S, s and the long s; k for K, k and the Kelvin sign)
Letter(c) == LowerChar(UpperChar(c))

\* the pattern with every member of every class replaced by its letter
LetterPattern(pattern) ==
    {[k \in 1..Len(alt) |->
         Atom({Letter(c) : c \in alt[k].chars}, alt[k].neg, alt[k].plus)] :
     alt \in pattern}

\* some substring of the text matches the pattern once case is disregarded:
\* the letters of the text match the letters of the pattern exactly
MatchesInAnyCase(pattern, text) ==
    re_search(LetterPattern(pattern), [i \in 1..Len(text) |-> Letter(text[i])], FALSE)

\* C3: for every registered standard, its id appears exactly once in
\* standards_checked of the returned report when the text contains a substring
\* matching the standard's pattern in any letter case, and not at all otherwise.
C3_DetectionPerStandard ==
    Returned =>
        \A k \in 1..Len(RegistryDecl) :
            Count(RegistryDecl[k].id, Report.standards_checked)
                = IF MatchesInAnyCase(RegistryDecl[k].validation_regex, input_text)
                  THEN 1 ELSE 0

\* a standard detected through a match that differs in case from the pattern
C3_Witness ==
    /\ Returned
    /\ \E k \in 1..Len(RegistryDecl) :
          /\ ~re_search(RegistryDecl[k].validation_regex, input_text, FALSE)
          /\ MatchesInAnyCase(RegistryDecl[k].validation_regex, input_text)
          /\ Count(RegistryDecl[k].id, Report.standards_checked) = 1

\* C4: compliant of the returned report is true exactly when some registered
\* pattern matched the input, that is when standards_checked is non-empty;
\* warnings and per-standard checks do not change it.
C4_CompliantIffMatched ==
    Returned =>
        /\ Report.compliant = (Matching(input_text) # {})
        /\ Report.compliant = (Report.standards_checked # <<>>)

C4_Witness ==
    /\ Returned
    /\ SomeDetailWarns(Report)
    /\ "warning" \in DOMAIN Report
    /\ Report.compliant = TRUE

\* C5: once main has printed the report it exits, with status 1 when the
\* printed compliant field is false and with status 0 when it is true,
\* warnings or not; nothing but that one report is printed.
C5_ExitStatus ==
    /\ (main_pc = "exited" /\ argv.has_input) =>
          /\ Len(stdout) = 1
          /\ stdout[1] = json_dumps(Report)
          /\ JsonGet(stdout[1], "compliant") = "false" => exit_code = 1
          /\ JsonGet(stdout[1], "compliant") = "true" => exit_code = 0
          /\ exit_code \in {0, 1}
    /\ (main_pc # "exited") => exit_code = -1
    /\ (main_pc \in {"start", "parsed", "validating"}) => stdout = <<>>

C5_Witness ==
    /\ main_pc = "exited"
    /\ Len(stdout) = 1
    /\ JsonGet(stdout[1], "compliant") = "false"
    /\ exit_code = 1

\* the inputs of the worked examples
TrKeySilentLeaf ==
    <<"t", "r", "(", "K", "E", "Y", ",", "{", "S", "I", "L", "E", "N", "T",
      "_", "L", "E", "A", "F", "}", ")">>
TrKeyOther ==
    <<"t", "r", "(", "K", "E", "Y", ",", "{", "O", "T", "H", "E", "R", "}", ")">>
PsbtHexDigits ==
    <<"p", "s", "b", "t", ":", "0", "1", "2", "3", "4", "5", "6", "7", "8",
      "9", "a", "b", "c", "d", "e", "f">>

\* sub occurs in text, character for character
HasExact(sub, text) ==
    \E i \in 1..Len(text) :
        /\ i + Len(sub) - 1 <= Len(text)
        /\ \A j \in 1..Len(sub) : text[i + j - 1] = sub[j]

\* the warnings of the report's detail for a checked standard
WarningsOf(res, id) ==
    res.details[CHOOSE i \in 1..Len(res.details) :
                    res.details[i].standard = id].warnings

Checked(res, id) == \E i \in 1..Len(res.standards_checked) :
                        res.standards_checked[i] = id

\* C6: when BIP-341 is checked, its detail warns about the missing SILENT_LEAF
\* pattern exactly when the input does not contain SILENT_LEAF in that very
\* case; tr(KEY,{SILENT_LEAF}) gives no warning, tr(KEY,{OTHER}) gives the
\* warning, the top-level warning and compliant true.
C6_TaprootSilentLeaf ==
    /\ (Returned /\ Checked(Report, "BIP-341")) =>
          ((\E j \in 1..Len(WarningsOf(Report, "BIP-341")) :
                WarningsOf(Report, "BIP-341")[j] = SilentLeafWarning)
           <=> ~HasExact(SILENT_LEAF, input_text))
    /\ (Returned /\ input_text = TrKeySilentLeaf) =>
          /\ Checked(Report, "BIP-341")
          /\ WarningsOf(Report, "BIP-341") = <<>>
    /\ (Returned /\ input_text = TrKeyOther) =>
          /\ Checked(Report, "BIP-341")
          /\ WarningsOf(Report, "BIP-341") = <<SilentLeafWarning>>
          /\ "warning" \in DOMAIN Report
          /\ Report.compliant = TRUE

\* the marker is present in another case only, and the warning is given
C6_Witness ==
    /\ Returned
    /\ Checked(Report, "BIP-341")
    /\ HasExact(lower(SILENT_LEAF), lower(input_text))
    /\ ~HasExact(SILENT_LEAF, input_text)
    /\ WarningsOf(Report, "BIP-341") = <<SilentLeafWarning>>

\* C7: when BIP-174 is checked, its detail warns that the PSBT should include
\* the unsigned_tx field exactly when the lower-cased input does not contain
\* unsigned_tx; psbt:0123456789abcdef gives BIP-174 checked, the warning, the
\* top-level warning and compliant true.
C7_PsbtUnsignedTx ==
    /\ (Returned /\ Checked(Report, "BIP-174")) =>
          ((\E j \in 1..Len(WarningsOf(Report, "BIP-174")) :
                WarningsOf(Report, "BIP-174")[j] = UnsignedTxWarning)
           <=> ~HasExact(unsigned_tx, lower(input_text)))
    /\ (Returned /\ input_text = PsbtHexDigits) =>
          /\ Checked(Report, "BIP-174")
          /\ WarningsOf(Report, "BIP-174") = <<UnsignedTxWarning>>
          /\ "warning" \in DOMAIN Report
          /\ Report.compliant = TRUE

\* the field marker is present in mixed case only, and no warning is given
C7_Witness ==
    /\ Returned
    /\ Checked(Report, "BIP-174")
    /\ HasExact(unsigned_tx, lower(input_text))
    /\ ~HasExact(unsigned_tx, input_text)
    /\ WarningsOf(Report, "BIP-174") = <<>>

\* position of a standard id in the registry's declaration order
DeclIndex(id) == CHOOSE k \in 1..Len(StandardIds) : StandardIds[k] = id

\* C8: standards_checked of the returned report lists ids of the registry in
\* declaration order without duplicates, and when it is non-empty details has
\* the same length and details[i].standard = standards_checked[i].
C8_OrderAndAlignment ==
    Returned =>
        LET sc == Report.standards_checked
            details == Report.details
        IN /\ \A i \in 1..Len(sc) : \E k \in 1..Len(StandardIds) : sc[i] = StandardIds[k]
           /\ \A i, j \in 1..Len(sc) : i < j => DeclIndex(sc[i]) < DeclIndex(sc[j])
           /\ sc # <<>> =>
                 /\ Len(details) = Len(sc)
                 /\ \A i \in 1..Len(sc) : details[i].standard = sc[i]

\* the PSBT marker precedes the Tapscript marker in the text, not in the report
C8_Witness ==
    /\ Returned
    /\ input_text = PsbtHexDigits \o <<"O", "P", "_", "C", "H", "E", "C", "K", "S", "I", "G">>
    /\ Report.standards_checked = <<"BIP-342", "BIP-174">>
    /\ Len(Report.details) = 2

\* C9 as stated: every entry of details carries the five ValidationDetail fields.
C9_EveryEntryIsDetail ==
    Returned =>
        \A i \in 1..Len(Report.details) : DOMAIN Report.details[i] = DetailFields

\* C9 as amended: every entry of details carries the five ValidationDetail
\* fields, except that the details of a report with no checked standard is
\* the single error entry, which carries the error field alone.
C9_DetailsShape ==
    Returned =>
        IF Report.standards_checked = <<>>
        THEN /\ Len(Report.details) = 1
             /\ DOMAIN Report.details[1] = {"error"}
        ELSE \A i \in 1..Len(Report.details) :
                /\ DOMAIN Report.details[i] = DetailFields
                /\ Report.details[i].compliant \in BOOLEAN
                /\ \E k \in 1..Len(RegistryDecl) :
                      /\ Report.details[i].standard = RegistryDecl[k].id
                      /\ Report.details[i].name = RegistryDecl[k].name
                      /\ Report.details[i].description = RegistryDecl[k].description
                /\ \A j \in 1..Len(Report.details[i].warnings) :
                      Report.details[i].warnings[j] \in {SilentLeafWarning, UnsignedTxWarning}

C9_Witness ==
    /\ Returned
    /\ Len(Report.details) = 2
    /\ Report.details[1].warnings = <<>>
    /\ Report.details[2].warnings = <<UnsignedTxWarning>>
    /\ Report.details[2].name = "PSBT"

\* C10: a call whose input equals the input of a retained earlier report
\* returns a report equal to the retained one, whatever calls were made in
\* between: same standards_checked, same compliant, same whole report.
C10_Idempotent ==
    (Returned /\ kept.ref # 0 /\ kept.input = input_text) =>
        /\ heap[kept.ref].standards_checked = Report.standards_checked
        /\ heap[kept.ref].compliant = Report.compliant
        /\ heap[kept.ref] = Report

\* a second, distinct call on the retained report's input has returned
C10_Witness ==
    /\ Returned
    /\ kept.ref # 0
    /\ kept.ref # results
    /\ kept.input = input_text
    /\ Report.standards_checked # <<>>
    /\ heap[kept.ref] = Report

\* C11: every detail of a returned report built for a matched standard has
\* compliant true; the details of BIP-342 and BIP-370 have no warnings, those
\* of BIP-341 and BIP-174 at most one, whatever else the input contains.
C11_DetailDefaults ==
    (Returned /\ Report.standards_checked # <<>>) =>
        \A i \in 1..Len(Report.details) :
            LET d == Report.details[i] IN
            /\ d.compliant = TRUE
            /\ d.standard \in {"BIP-342", "BIP-370"} => d.warnings = <<>>
            /\ d.standard \in {"BIP-341", "BIP-174"} => Len(d.warnings) <= 1
            /\ d.standard = "BIP-341" => d.warnings \in {<<>>, <<SilentLeafWarning>>}
            /\ d.standard = "BIP-174" => d.warnings \in {<<>>, <<UnsignedTxWarning>>}

\* BIP-370 alone is checked on a text without unsigned_tx, and does not warn
C11_Witness ==
    /\ Returned
    /\ Report.standards_checked = <<"BIP-370">>
    /\ ~HasExact(unsigned_tx, lower(input_text))
    /\ ~HasExact(SILENT_LEAF, input_text)
    /\ Report.details[1].warnings = <<>>
    /\ Report.details[1].compliant = TRUE

\* C18: the top-level warning key of a returned report is present only if
\* some detail has a non-empty warnings sequence; it is absent when no checked
\* standard warned and when nothing matched, so compliant false and a warning
\* never occur together.
C18_WarningOnlyWithWarnings ==
    Returned =>
        /\ "warning" \in DOMAIN Report => SomeDetailWarns(Report)
        /\ Report.standards_checked = <<>> => "warning" \notin DOMAIN Report
        /\ ~(Report.compliant = FALSE /\ "warning" \in DOMAIN Report)

\* standards were checked, none warned, and the key is absent
C18_Witness ==
    /\ Returned
    /\ Len(Report.standards_checked) = 2
    /\ ~SomeDetailWarns(Report)
    /\ "warning" \notin DOMAIN Report
    /\ DOMAIN Report = {"validation_performed", "timestamp", "standards_checked",
                        "compliant", "details"}

\* C12: validate_protocol has no side effects: no step changes the registry,
\* a running call does not change its input, a call starts on a new results
\* dict, and a report that a caller retained is the same after every step of
\* every later call.
C12_NoSideEffects ==
    [][/\ BIP_STANDARDS' = BIP_STANDARDS
       /\ pc = "loop" => input_text' = input_text
       /\ (pc # "loop" /\ pc' = "loop") =>
             /\ results' # kept.ref
             /\ heap'[results'] = NewResults
       /\ (kept.ref # 0 /\ kept' = kept) =>
             /\ kept.ref \in DOMAIN heap'
             /\ heap'[kept.ref] = heap[kept.ref]]_vars

\* a later call on another input has returned, the retained report is intact
C12_Witness ==
    /\ Returned
    /\ kept.ref # 0
    /\ results # kept.ref
    /\ kept.input # input_text
    /\ heap[kept.ref] = validate_protocol(kept.input)
    /\ Report = validate_protocol(input_text)
    /\ heap[kept.ref] # Report
    /\ BIP_STANDARDS = RegistryDecl

\* C14: a call always returns, after a single pass in which every loop step
\* tests the next registry entry, four steps in all.
C14_Terminates ==
    /\ (pc = "loop") ~> (pc = "returned")
    /\ [][(pc = "loop" /\ pc' = "loop") =>
             (idx <= Len(RegistryDecl) /\ idx' = idx + 1)]_vars
    /\ [](Returned => idx = Len(RegistryDecl) + 1)
    /\ [][(pc' = "loop" /\ pc # "loop") => idx' = 1]_vars

C14_Witness ==
    /\ Returned
    /\ idx = 5
    /\ Len(input_text) > 30
    /\ Report.standards_checked # <<>>

\* C13: under every interleaving of the loop steps of concurrent calls, a
\* call that has returned holds the report the function computes for its own
\* input when run alone, and two calls never share a results dict.
C13_ConcurrentCallsIndependent ==
    /\ \A t \in Threads :
          threads[t].pc = "returned" =>
              heap[threads[t].results] = validate_protocol(threads[t].input_text)
    /\ \A t, u \in Threads :
          (t # u /\ threads[t].pc # "idle" /\ threads[u].pc # "idle") =>
              threads[t].results # threads[u].results

\* thread 2 entered first and is in the middle of its loop, thread 1 entered
\* later, on another input, and has already returned
C13_Witness ==
    /\ threads[1].pc = "returned"
    /\ threads[1].results = 2
    /\ threads[2].pc = "loop"
    /\ threads[2].idx = 3
    /\ threads[1].input_text # threads[2].input_text
    /\ threads[1].input_text # <<>>
    /\ heap[threads[1].results] = validate_protocol(threads[1].input_text)

\* the harness has printed a line of this kind for test case i
HasLine(i, kind) ==
    \E n \in 1..Len(harness.out) : harness.out[n].case = i /\ harness.out[n].kind = kind

\* the text of the Result line of test case i
ResultOf(i) ==
    harness.out[CHOOSE n \in 1..Len(harness.out) :
                    harness.out[n].case = i /\ harness.out[n].kind = "Result"].value

\* the validator process of the current test case has printed a report
ValidatorReported == main_pc = "exited" /\ stdout # <<>>

\* C19: for every test input on which the validator printed its report, once
\* the harness is through with the input it has printed a Result line,
\* 'Compliant' when the report's compliant is true and 'Non-compliant' when
\* it is false, together with the standards checked and the details.
C19_ResultLineForEveryReport ==
    (harness.pc = "reported" /\ ValidatorReported) =>
        /\ HasLine(harness.i, "Result")
        /\ ResultOf(harness.i) = (IF Report.compliant THEN "Compliant" ELSE "Non-compliant")
        /\ HasLine(harness.i, "Standards checked")
        /\ HasLine(harness.i, "Details")

\* the validator printed a non-compliant report for the third test case and
\* left with status 1; the harness printed the error of the failed command
\* and no Result line
C19_Witness ==
    /\ harness.pc = "reported"
    /\ harness.i = 3
    /\ ValidatorReported
    /\ ~Report.compliant
    /\ exit_code = 1
    /\ harness.output.none
    /\ HasLine(3, "Error running command")
    /\ ~HasLine(3, "Result")
    /\ HasLine(1, "Result") /\ ResultOf(1) = "Compliant"
    /\ HasLine(2, "Result") /\ ResultOf(2) = "Compliant" /\ HasLine(2, "Warning")

\* C17: every request of the Web5 client goes to the server URL parsed from
\* the command line: the --server value, or http://localhost:8000 without it.
C17_RequestsGoToServerOption ==
    \A n \in 1..Len(web5.requests) : web5.requests[n].server = web5.args.server

\* the client ran to completion with --server http://example.org:9000 and sent
\* all six requests to http://localhost:8000
C17_Witness ==
    /\ web5.pc = "exited"
    /\ web5.exit_code = 0
    /\ web5.args.server = "http://example.org:9000"
    /\ Len(web5.requests) = 6
    /\ \A n \in 1..Len(web5.requests) : web5.requests[n].server = "http://localhost:8000"

\* the last direct call of sync_file was made in the mode that copies, and
\* its source file existed
CopyingCall ==
    /\ sync_call.n > 0
    /\ ~sync_call.check_only
    /\ ~sync_call.dry_run
    /\ sync_call.before.files[sync_call.source_repo][sync_call.filename].exists

\* C15: a call of sync_file with check_only or dry_run set leaves every file,
\* every repository directory and every history directory as it found them.
C15_CheckAndDryRunChangeNothing ==
    (sync_call.n > 0 /\ (sync_call.check_only \/ sync_call.dry_run)) =>
        /\ fs.files = sync_call.before.files
        /\ fs.dirs = sync_call.before.dirs
        /\ fs.history = sync_call.before.history

\* a dry run found a source file and no target directory, reported the
\* difference as synced and created nothing
C15_Witness ==
    /\ sync_call.n > 0
    /\ sync_call.dry_run
    /\ ~sync_call.check_only
    /\ sync_call.has_diff
    /\ sync_call.synced
    /\ sync_call.target_repo \notin fs.dirs
    /\ fs.files[sync_call.source_repo][sync_call.filename].exists
    /\ ~fs.files[sync_call.target_repo][sync_call.filename].exists

\* C20: after a copying call of sync_file on an existing source file the
\* target holds the source's content, and the call returned (True, True), or
\* (False, True) when the two were identical before; the same call made again
\* returns (False, True) and leaves the file system as it is.
C20_SyncThenIdentical ==
    /\ [](CopyingCall =>
            LET src == sync_call.before.files[sync_call.source_repo][sync_call.filename]
                old == sync_call.before.files[sync_call.target_repo][sync_call.filename]
            IN /\ fs.files[sync_call.target_repo][sync_call.filename] = src
               /\ fs.files[sync_call.source_repo][sync_call.filename] = src
               /\ sync_call.synced
               /\ sync_call.has_diff = ~(old.exists /\ old.data = src.data))
    /\ [][(/\ CopyingCall
           /\ sync_call'.n = sync_call.n + 1
           /\ sync_call'.target_repo = sync_call.target_repo
           /\ sync_call'.filename = sync_call.filename
           /\ ~sync_call'.check_only
           /\ ~sync_call'.dry_run)
          => (/\ ~sync_call'.has_diff
              /\ sync_call'.synced
              /\ fs' = fs)]_vars

\* AI_LABELLING.md was replaced by a first call, which saved the old content
\* to the history, and the call made again found the files identical; calls on
\* the other file cannot have done either, its source is missing
C20_Witness ==
    /\ sync_call.n = 2
    /\ CopyingCall
    /\ sync_call.filename = LABELLING_FILE
    /\ ~sync_call.has_diff
    /\ sync_call.synced
    /\ fs = sync_call.before
    /\ ~fs.files[DEFAULT_SOURCE][COMMIT_RULES_FILE].exists
    /\ fs.files[sync_call.target_repo][LABELLING_FILE] = File("v2")
    /\ \E e \in fs.history[sync_call.target_repo].entries : e.name[2] >= 1 /\ e.data = "v1"

\* the subprocesses main ran for a repository
CommandsFor(repo) ==
    {n \in 1..Len(sync.commands) : sync.commands[n].repo = repo}

\* C16: main runs a git or batch_commit.sh subprocess for a repository only
\* without --check-only, --no-commit and --dry-run, and only when the
\* repository is not the source and its list of changed files is not empty.
C16_CommitsOnlyWhenAllowed ==
    \A n \in 1..Len(sync.commands) :
        /\ ~sync.args.check_only
        /\ ~sync.args.no_commit
        /\ ~sync.args.dry_run
        /\ sync.commands[n].repo # sync.args.source
        /\ sync.commands[n].repo \in DOMAIN sync.changes_by_repo
        /\ sync.changes_by_repo[sync.commands[n].repo] # <<>>

\* a run over two target repositories committed the two changed files of
\* anya-web5 with git and ran nothing for anya-mobile, which had no changes
C16_Witness ==
    /\ sync.pc = "exited"
    /\ sync.changes_by_repo["anya-web5"] = <<LABELLING_FILE, COMMIT_RULES_FILE>>
    /\ \E n \in CommandsFor("anya-web5") : sync.commands[n].cmd = "git commit"
    /\ "anya-mobile" \in DOMAIN sync.changes_by_repo
    /\ sync.changes_by_repo["anya-mobile"] = <<>>
    /\ CommandsFor("anya-mobile") = {}
    /\ CommandsFor(sync.args.source) = {}

\* the names of a set of history entries, and the timestamps in them
EntryNames(entries) == {e.name : e \in entries}

\* C21: a history directory never holds more than 10 history files; after a
\* call of save_history the copy just saved is the latest entry, every entry
\* that was removed is older than every entry that was kept, and nothing is
\* removed while there are 10 or fewer.
C21_HistoryRetention ==
    /\ \A r \in Repos : Cardinality(fs.history[r].entries) <= 10
    /\ sync_call.n > 0 =>
          LET old == sync_call.before.history[sync_call.target_repo].entries
              new == fs.history[sync_call.target_repo].entries
              all == EntryNames(old) \cup EntryNames(new)
              saved == sync_call.before.files[sync_call.target_repo][sync_call.filename]
          IN /\ fs.history[sync_call.target_repo].exists
             /\ Cardinality(new) = (IF Cardinality(all) > 10 THEN 10 ELSE Cardinality(all))
             /\ \E e \in new : /\ e.data = saved.data
                               /\ \A d \in new : d.name[2] <= e.name[2]
             /\ \A d \in old : d.name \notin EntryNames(new) =>
                                  \A e \in new : d.name[2] < e.name[2]

\* the directory held ten copies, a call saved an eleventh and removed the
\* oldest one
C21_Witness ==
    /\ sync_call.n > 0
    /\ Cardinality(sync_call.before.history["anya-web5"].entries) = 10
    /\ Cardinality(fs.history["anya-web5"].entries) = 10
    /\ HistoryName(-9) \in EntryNames(sync_call.before.history["anya-web5"].entries)
    /\ HistoryName(-9) \notin EntryNames(fs.history["anya-web5"].entries)
    /\ \E e \in fs.history["anya-web5"].entries : e.name[2] >= 1

\* main replaced this file of this repository: it was there when main
\* started and holds another content now
Replaced(repo, filename) ==
    /\ sync.fs_at_start.files[repo][filename].exists
    /\ fs.files[repo][filename] # sync.fs_at_start.files[repo][filename]

\* C22: at the end of a run, for every target file the run replaced in a
\* repository whose history directory held fewer than 9 entries before, the
\* repository's .label_history holds a copy of the file's previous content.
C22_HistoryHoldsEveryReplacedFile ==
    sync.pc = "exited" =>
        \A repo \in Repos, filename \in SyncFiles :
            (/\ Replaced(repo, filename)
             /\ Cardinality(sync.fs_at_start.history[repo].entries) < 9)
            => \E e \in fs.history[repo].entries :
                   e.data = sync.fs_at_start.files[repo][filename].data

\* both files of anya-web5 were replaced within one second: the history holds
\* one file, the previous COMMIT_RULES.md, and no copy of the previous
\* AI_LABELLING.md
C22_Witness ==
    /\ sync.pc = "exited"
    /\ Replaced("anya-web5", LABELLING_FILE)
    /\ Replaced("anya-web5", COMMIT_RULES_FILE)
    /\ sync.fs_at_start.files["anya-web5"][LABELLING_FILE] = File("v1")
    /\ sync.fs_at_start.files["anya-web5"][COMMIT_RULES_FILE] = File("v0")
    /\ sync.fs_at_start.history["anya-web5"].entries = {}
    /\ Cardinality(fs.history["anya-web5"].entries) = 1
    /\ \A e \in fs.history["anya-web5"].entries : e.data = "v0"

\* sync_file reported a difference to main for a repository other than the source
DifferenceReported ==
    \E n \in 1..Len(sync.calls) :
        sync.calls[n].has_diff /\ sync.calls[n].target_repo # sync.args.source

\* C23: main exits with status 1 exactly when --check-only is set and
\* sync_file reported a difference for a target repository other than the
\* source; in every other case, a missing source file and a failed commit
\* included, it exits with 0.
C23_ExitStatus ==
    sync.pc \in {"exited", "crashed"} =>
        sync.exit_code = (IF sync.args.check_only /\ DifferenceReported THEN 1 ELSE 0)

\* a run without --check-only copied the files of anya-web5 and went on to
\* commit them; git could not be started, the exception left commit_changes
\* and main, and the process ended with status 1 and no summary
C23_Witness ==
    /\ sync.pc = "crashed"
    /\ sync.exit_code = 1
    /\ ~sync.args.check_only
    /\ ~sync.args.batch_commit
    /\ DifferenceReported
    /\ sync.summary = NoSummary
    /\ sync.commands = <<>>
    /\ \E n \in 1..Len(sync.commits) :
          sync.commits[n].repo = "anya-web5" /\ sync.commits[n].raised

\* C24: main never calls sync_file or commit_changes with the source
\* repository as target and runs no subprocess for it, whether the source is
\* listed in --target or added to the list, and the source repository's files
\* and history stay as main found them.
C24_SourceIsNeverTarget ==
    /\ \A n \in 1..Len(sync.calls) : sync.calls[n].target_repo # sync.args.source
    /\ \A n \in 1..Len(sync.commits) : sync.commits[n].repo # sync.args.source
    /\ \A n \in 1..Len(sync.commands) : sync.commands[n].repo # sync.args.source
    /\ sync.pc # "start" =>
          /\ fs.files[sync.args.source] = sync.fs_at_start.files[sync.args.source]
          /\ fs.history[sync.args.source] = sync.fs_at_start.history[sync.args.source]

\* with --source anya-web5 listed among three targets, main called sync_file
\* for the two files of the two other repositories, replaced a file of
\* anya-core, committed there and left anya-web5 as it was
C24_Witness ==
    /\ sync.pc = "exited"
    /\ sync.args.source = "anya-web5"
    /\ Len(sync.target_repos) = 3
    /\ Len(sync.calls) = 4
    /\ fs.files["anya-core"][LABELLING_FILE] = File("v1")
    /\ sync.fs_at_start.files["anya-core"][LABELLING_FILE] = File("v2")
    /\ \E n \in 1..Len(sync.commits) : sync.commits[n].repo = "anya-core"
    /\ fs.files["anya-web5"] = sync.fs_at_start.files["anya-web5"]

\* the target repositories of the run other than the source
NonSourceTargets == Range(sync.target_repos) \ {sync.args.source}

\* C25: in the summary of a run that is not check-only, the number printed
\* as 'Repositories synchronized' is the number of distinct repositories
\* listed beneath it and is at most the number of non-source target
\* repositories.
C25_SynchronizedCount ==
    (sync.pc = "exited" /\ ~sync.args.check_only) =>
        /\ sync.summary.synced = Cardinality(sync.summary.synced_repos)
        /\ sync.summary.synced <= Cardinality(NonSourceTargets)

\* a run with anya-web5 as its only target synchronized both files there: the
\* summary says 2 repositories and lists one
C25_Witness ==
    /\ sync.pc = "exited"
    /\ ~sync.args.check_only
    /\ NonSourceTargets = {"anya-web5"}
    /\ sync.summary.synced = 2
    /\ sync.summary.synced_repos = {"anya-web5"}
    /\ \A n \in 1..Len(sync.calls) : sync.calls[n].synced

=============================================================================
